---- MODULE Spec2Model ----
(***************************************************************************)
(* Model of inog-demo/mininet_faucet_demo.py: the topology declared by     *)
(* FaucetTopo and the provisioning / teardown sequence of run().           *)
(*                                                                         *)
(* run() is one sequential procedure.  It is cut into one action per       *)
(* external call (a command run on a node, a sleep, a Mininet call); pc    *)
(* is the position in run().  The five poll loops share four actions       *)
(* (While, Test, Sleep, Retry) driven by per-loop tables taken from the    *)
(* source; `step` names the loop being executed.  What the outside world   *)
(* answers to a polled command is an input, drawn from a small set.        *)
(* Texts are TLA+ strings; substring tests and the grep pipeline are       *)
(* computed character by character.                                        *)
(***************************************************************************)
EXTENDS Integers, Sequences, FiniteSets, TLC

VARIABLES
    EXT_INT,    \* the module-level constant naming the external interface
    pc,         \* position in run()
    step,       \* the poll loop in progress ("none" outside the loops)
    topo,       \* the Topo object built by FaucetTopo()
    controller, \* per switch, the controller target set by ovs-vsctl
    out,        \* output of the last polled command
    reported,   \* address on eth0 at the last `ip addr show eth0`
    unmet,      \* polls of the current loop that found the condition unmet
    inits,      \* initiating-action commands issued by the current loop
    log,        \* the first MaxLog external actions of run(), in order
    intfRefs,   \* <<node, interface>> pairs named in commands so far
    extUse,     \* interface names used at the four external-interface places
    linkIdx,    \* links of net.links stopped so far
    hostIdx,    \* hosts of net.hosts stopped and terminated so far
    netStopped  \* net.stop() has been called

vars == <<EXT_INT, pc, step, topo, controller, out, reported, unmet, inits,
          log, intfRefs, extUse, linkIdx, hostIdx, netStopped>>

(***************************************************************************)
(* Bounds of the model.                                                    *)
(***************************************************************************)
\* the per-loop counters unmet and inits stop counting at MaxRetry
MaxRetry == 2
\* the log keeps the first MaxLog external actions
MaxLog == 5

\* values tried for the EXT_INT constant (the source sets 'enp0s9')
ExtIntValues == {"enp0s9", "enp0s8"}

(***************************************************************************)
(* Text helpers.                                                           *)
(***************************************************************************)
\* Python's `m in s` on strings
Contains(s, m) ==
    \E i \in 1..(Len(s) - Len(m) + 1) : SubSeq(s, i, i + Len(m) - 1) = m

Digits == {"0", "1", "2", "3", "4", "5", "6", "7", "8", "9"}

Digit(d) == SubSeq("0123456789", d + 1, d + 1)

RECURSIVE Dec(_)
\* decimal text of a natural number
Dec(n) == IF n < 10 THEN Digit(n) ELSE Dec(n \div 10) \o Digit(n % 10)

(***************************************************************************)
(* `ip addr show eth0 | grep -o 10.0.0.[0-9]` as run on h1 and h2.         *)
(***************************************************************************)
\* an address: four octets; NoAddr when eth0 carries no IPv4 address
NoAddr == <<>>

FirstOctets == {10, 110, 192}
SecondOctets == {0, 168}
ThirdOctets == {0, 1}
FourthOctets == {5, 10}

Addrs == {<<a, b, c, d>> : a \in FirstOctets, b \in SecondOctets,
                           c \in ThirdOctets, d \in FourthOctets}

Dotted(a) == Dec(a[1]) \o "." \o Dec(a[2]) \o "." \o Dec(a[3]) \o "." \o Dec(a[4])

\* the inet line `ip addr show eth0` prints for the address (none: nothing)
IpAddrShow(a) ==
    IF a = NoAddr THEN "" ELSE "    inet " \o Dotted(a) \o "/24 scope global eth0"

\* the regular expression 10.0.0.[0-9] matches the 8 characters at position i:
\* each unescaped dot matches any character
MatchAt(t, i) ==
    /\ i + 7 <= Len(t)
    /\ SubSeq(t, i, i) = "1"
    /\ SubSeq(t, i + 1, i + 1) = "0"
    /\ SubSeq(t, i + 3, i + 3) = "0"
    /\ SubSeq(t, i + 5, i + 5) = "0"
    /\ SubSeq(t, i + 7, i + 7) \in Digits

RECURSIVE GrepFrom(_, _)
\* grep -o: every leftmost non-overlapping match, one per output line
GrepFrom(t, i) ==
    IF i + 7 > Len(t) THEN ""
    ELSE IF MatchAt(t, i) THEN SubSeq(t, i, i + 7) \o "\n" \o GrepFrom(t, i + 8)
    ELSE GrepFrom(t, i + 1)

GrepO(t) == GrepFrom(t, 1)

\* what h.cmd('ip addr show eth0 | grep -o 10.0.0.[0-9]') returns
IpAddrGrep(a) == GrepO(IpAddrShow(a))

\* the address lies in the subnet 10.0.0.x
InSubnet(a) == a # NoAddr /\ a[1] = 10 /\ a[2] = 0 /\ a[3] = 0

(***************************************************************************)
(* FaucetTopo: the declared topology.                                      *)
(***************************************************************************)
EmptyTopo == [nodes |-> <<>>, links |-> <<>>]

NodeRec(name, call, protocols, dpid, ip, inNamespace) ==
    [name |-> name, call |-> call, protocols |-> protocols, dpid |-> dpid,
     ip |-> ip, inNamespace |-> inNamespace]

addSwitch(t, name, protocols, dpid) ==
    [t EXCEPT !.nodes = Append(@, NodeRec(name, "addSwitch", protocols, dpid, "", FALSE))]

addNode(t, name, ip, inNamespace) ==
    [t EXCEPT !.nodes = Append(@, NodeRec(name, "addNode", "", "", ip, inNamespace))]

addHost(t, name, ip) ==
    [t EXCEPT !.nodes = Append(@, NodeRec(name, "addHost", "", "", ip, FALSE))]

addLink(t, node1, node2, intfName1, intfName2) ==
    [t EXCEPT !.links = Append(@, [node1 |-> node1, node2 |-> node2,
                                   intfName1 |-> intfName1, intfName2 |-> intfName2])]

\* the addSwitch, addNode and addHost calls of FaucetTopo.__init__
FaucetNodes(t) ==
    LET t1 == addSwitch(t, "sw1", "OpenFlow13", "1")
        t2 == addSwitch(t1, "sw2", "OpenFlow13", "2")
        t3 == addNode(t2, "faucet", "0.0.0.0", FALSE)
        t4 == addNode(t3, "dhcp", "10.0.0.254", TRUE)
        t5 == addNode(t4, "nat", "10.0.0.1", TRUE)
        t6 == addNode(t5, "ids", "0.0.0.0", TRUE)
        t7 == addHost(t6, "h1", "0.0.0.0")
        t8 == addHost(t7, "h2", "0.0.0.0")
    IN  t8

\* the addLink calls of FaucetTopo.__init__
FaucetLinks(t) ==
    LET l1 == addLink(t, "sw1", "h1", "port-1", "eth0")
        l2 == addLink(l1, "sw1", "h2", "port-2", "eth0")
        l3 == addLink(l2, "sw1", "sw2", "port-3", "eth1")
        l4 == addLink(l3, "sw1", "faucet", "port-4", "eth4")
        l5 == addLink(l4, "sw2", "dhcp", "int2", "dhcp-eth0")
        l6 == addLink(l5, "sw2", "nat", "int3", "nat-eth0")
        l7 == addLink(l6, "sw2", "ids", "int4", "ids-eth0")
        l8 == addLink(l7, "faucet", "sw2", "eth2", "eth0")
    IN  l8

\* FaucetTopo with its last addLink call missing
FaucetTopoNoLastLink ==
    [FaucetLinks(FaucetNodes(EmptyTopo)) EXCEPT !.links = SubSeq(@, 1, Len(@) - 1)]

\* FaucetTopo with the last link ending on sw2's eth1, the name the sw1-sw2 link
\* already uses there
FaucetTopoDupIntf ==
    LET t == FaucetLinks(FaucetNodes(EmptyTopo))
    IN  [t EXCEPT !.links[Len(t.links)].intfName2 = "eth1"]

\* FaucetTopo with h2's end of its link named eth1
FaucetTopoH2Eth1 ==
    [FaucetLinks(FaucetNodes(EmptyTopo)) EXCEPT !.links[2].intfName2 = "eth1"]

FaucetTopo == FaucetLinks(FaucetNodes(EmptyTopo))

\* the nodes of a topology declared by a given call
NodesBy(t, call) == {t.nodes[i] : i \in {j \in 1..Len(t.nodes) : t.nodes[j].call = call}}

NodeNames(t) == {t.nodes[i].name : i \in 1..Len(t.nodes)}

\* the link endpoints on node n: <<link index, side, interface name>>
Endpoints(t, n) ==
    {<<i, 1, t.links[i].intfName1>> : i \in {j \in 1..Len(t.links) : t.links[j].node1 = n}}
    \cup
    {<<i, 2, t.links[i].intfName2>> : i \in {j \in 1..Len(t.links) : t.links[j].node2 = n}}

\* the interface names the links declare on node n
DeclaredIntfs(t, n) == {e[3] : e \in Endpoints(t, n)}

\* net.links and net.hosts of the Mininet built from the topology: one link per
\* declared link, one host per node that is not a switch
NetLinks(t) == t.links

NetHosts(t) == SelectSeq(t.nodes, LAMBDA n : n.call # "addSwitch")

(***************************************************************************)
(* The five poll loops of run(), in order, and what each one runs.         *)
(***************************************************************************)
Steps == <<"faucet", "switch", "dhcp", "h1", "h2">>

StepSet == {Steps[i] : i \in 1..Len(Steps)}

\* the node whose shell runs the loop's commands (root: quietRun)
PollNode(s) ==
    CASE s = "faucet" -> "root"
      [] s = "switch" -> "root"
      [] s = "dhcp" -> "dhcp"
      [] s = "h1" -> "h1"
      [] s = "h2" -> "h2"

\* the command whose output the while condition reads
PollCmd(s) ==
    CASE s = "faucet" -> "service faucet status"
      [] s = "switch" -> "ovs-vsctl show"
      [] s = "dhcp" -> "netstat -an | grep 67"
      [] s = "h1" -> "ip addr show eth0 | grep -o 10.0.0.[0-9]"
      [] s = "h2" -> "ip addr show eth0 | grep -o 10.0.0.[0-9]"

\* the text the while condition looks for in that output
Marker(s) ==
    CASE s = "faucet" -> "(running)"
      [] s = "switch" -> "is_connected"
      [] s = "dhcp" -> "0.0.0.0:67"
      [] s = "h1" -> "10.0.0"
      [] s = "h2" -> "10.0.0"

\* the sleep at the top of the loop body
SleepCmd(s) ==
    CASE s = "faucet" -> "sleep 1"
      [] s = "switch" -> "sleep 1"
      [] s = "dhcp" -> "sleep 2"
      [] s = "h1" -> "sleep 3"
      [] s = "h2" -> "sleep 3"

\* the command the loop body issues after the sleep ("": the body issues none)
RetryCmd(s) ==
    CASE s = "faucet" -> "service faucet start"
      [] s = "switch" -> ""
      [] s = "dhcp" -> "/usr/sbin/dnsmasq"
      [] s = "h1" -> "/sbin/udhcpc -nq -t 3 -i eth0"
      [] s = "h2" -> "/sbin/udhcpc -nq -t 3 -i eth0"

\* the interface the loop's commands name on the loop's node ("": none)
StepIntf(s) == IF s \in {"h1", "h2"} THEN "eth0" ELSE ""

\* a loop that tests its condition only after one pass through its body
LoopExitsAfterOne(s, o) == unmet > 0 /\ Contains(o, Marker(s))

\* a loop that gives up after MaxRetry unmet polls
LoopExitsOrGivesUp(s, o) == Contains(o, Marker(s)) \/ unmet >= MaxRetry

\* the while condition is false: the loop is left
LoopExits(s, o) == Contains(o, Marker(s))

\* the dnsmasq launch missing from the body of the DHCP-server loop
AfterSleepNoDnsmasq(s) == IF s \in {"switch", "dhcp"} THEN "while" ELSE "retry"

\* where the loop body goes after its sleep
AfterSleep(s) == IF RetryCmd(s) = "" THEN "while" ELSE "retry"

\* the loop that follows loop s ("none" after the last)
NextStep(s) ==
    CASE s = "faucet" -> "switch"
      [] s = "switch" -> "dhcp"
      [] s = "dhcp" -> "h1"
      [] s = "h1" -> "h2"
      [] s = "h2" -> "none"

\* answers of the outside world to the polled commands of the first three loops
Outputs(s) ==
    CASE s = "faucet" -> {"Active: active (running)", "Active: inactive (dead)",
                          " * faucet is not running"}
      [] s = "switch" -> {"is_connected: true", "Controller tcp:127.0.0.1:6633"}
      [] s = "dhcp" -> {"udp 0 0 0.0.0.0:67 0.0.0.0:*", "",
                        "udp 0 0 127.0.0.1:67 0.0.0.0:*"}

(***************************************************************************)
(* Recording of external actions.                                          *)
(***************************************************************************)
Act(node, cmd, o) == [node |-> node, cmd |-> cmd, out |-> o]

Logged(e) == IF Len(log) < MaxLog THEN Append(log, e) ELSE log

Bump(n) == IF n < MaxRetry THEN n + 1 ELSE n

NoExtUse == [attach |-> "", dhclient |-> "", masq |-> "", detach |-> ""]

SetControllerCmd(bridge) == "ovs-vsctl set-controller " \o bridge \o " tcp:127.0.0.1:6633"

(***************************************************************************)
(* Initial state: the module is loaded, run() has not started.             *)
(***************************************************************************)
Init ==
    /\ EXT_INT \in ExtIntValues
    /\ pc = "start"
    /\ step = "none"
    /\ topo = EmptyTopo
    /\ controller = [b \in {"sw1", "sw2"} |-> ""]
    /\ out = ""
    /\ reported = NoAddr
    /\ unmet = 0
    /\ inits = 0
    /\ log = <<>>
    /\ intfRefs = {}
    /\ extUse = NoExtUse
    /\ linkIdx = 0
    /\ hostIdx = 0
    /\ netStopped = FALSE

(***************************************************************************)
(* run(): building and starting the network.                               *)
(***************************************************************************)
Start ==
    /\ pc = "start"
    /\ topo' = FaucetTopo
    /\ pc' = "setctl1"
    /\ UNCHANGED <<EXT_INT, step, controller, out, reported, unmet, inits, log,
                   intfRefs, extUse, linkIdx, hostIdx, netStopped>>

\* node.cmd('ovs-vsctl set-controller <bridge> tcp:127.0.0.1:6633')
SetController(at, node, bridge, nextPc, nextStep) ==
    /\ pc = at
    /\ controller' = [controller EXCEPT ![bridge] = "tcp:127.0.0.1:6633"]
    /\ log' = Logged(Act(node, SetControllerCmd(bridge), ""))
    /\ pc' = nextPc
    /\ step' = nextStep
    /\ UNCHANGED <<EXT_INT, topo, out, reported, unmet, inits, intfRefs, extUse,
                   linkIdx, hostIdx, netStopped>>

SetController1 == SetController("setctl1", "sw1", "sw1", "setctl2", "none")

\* the second assignment addressed to sw1 again
SetController2Wrong == SetController("setctl2", "sw2", "sw1", "while", "faucet")

SetController2 == SetController("setctl2", "sw2", "sw2", "while", "faucet")

(***************************************************************************)
(* run(): the poll loops.                                                  *)
(***************************************************************************)
\* the polled command of the while condition is run
While ==
    /\ pc = "while"
    /\ \/ /\ step \in {"faucet", "switch", "dhcp"}
          /\ \E o \in Outputs(step) :
                /\ out' = o
                /\ log' = Logged(Act(PollNode(step), PollCmd(step), o))
          /\ UNCHANGED <<reported, intfRefs>>
       \/ /\ step \in {"h1", "h2"}
          /\ \E a \in Addrs \cup {NoAddr} :
                /\ reported' = a
                /\ out' = IpAddrGrep(a)
                /\ log' = Logged(Act(PollNode(step), PollCmd(step), IpAddrGrep(a)))
          /\ intfRefs' = intfRefs \cup {<<PollNode(step), StepIntf(step)>>}
    /\ pc' = "test"
    /\ UNCHANGED <<EXT_INT, step, topo, controller, unmet, inits, extUse,
                   linkIdx, hostIdx, netStopped>>

\* the while condition is decided on the output just read
Test ==
    /\ pc = "test"
    /\ IF LoopExits(step, out)
       THEN /\ step' = NextStep(step)
            /\ pc' = IF NextStep(step) = "none" THEN "attach" ELSE "while"
            /\ unmet' = 0
            /\ inits' = 0
       ELSE /\ pc' = "sleep"
            /\ unmet' = Bump(unmet)
            /\ UNCHANGED <<step, inits>>
    /\ UNCHANGED <<EXT_INT, topo, controller, out, reported, log, intfRefs,
                   extUse, linkIdx, hostIdx, netStopped>>

Sleep ==
    /\ pc = "sleep"
    /\ log' = Logged(Act("", SleepCmd(step), ""))
    /\ pc' = AfterSleep(step)
    /\ UNCHANGED <<EXT_INT, step, topo, controller, out, reported, unmet, inits,
                   intfRefs, extUse, linkIdx, hostIdx, netStopped>>

\* the initiating action is issued again
Retry ==
    /\ pc = "retry"
    /\ log' = Logged(Act(PollNode(step), RetryCmd(step), ""))
    /\ inits' = Bump(inits)
    /\ intfRefs' = IF StepIntf(step) = "" THEN intfRefs
                   ELSE intfRefs \cup {<<PollNode(step), StepIntf(step)>>}
    /\ pc' = "while"
    /\ UNCHANGED <<EXT_INT, step, topo, controller, out, reported, unmet,
                   extUse, linkIdx, hostIdx, netStopped>>

(***************************************************************************)
(* run(): the NAT node, the interactive session, teardown.                 *)
(***************************************************************************)
\* nat_nfv.cmd(cmd), naming interface intf on the nat node ("": none)
NatCmd(at, cmd, intf, nextPc) ==
    /\ pc = at
    /\ log' = Logged(Act("nat", cmd, ""))
    /\ intfRefs' = IF intf = "" THEN intfRefs ELSE intfRefs \cup {<<"nat", intf>>}
    /\ pc' = nextPc

\* Intf(EXT_INT, node=nat_nfv)
AttachIntf ==
    /\ pc = "attach"
    /\ extUse' = [extUse EXCEPT !.attach = EXT_INT]
    /\ log' = Logged(Act("nat", "Intf " \o EXT_INT, ""))
    /\ pc' = "sleep1"
    /\ UNCHANGED <<EXT_INT, step, topo, controller, out, reported, unmet, inits,
                   intfRefs, linkIdx, hostIdx, netStopped>>

SleepAfterAttach ==
    /\ pc = "sleep1"
    /\ log' = Logged(Act("", "sleep 1", ""))
    /\ pc' = "dhclient"
    /\ UNCHANGED <<EXT_INT, step, topo, controller, out, reported, unmet, inits,
                   intfRefs, extUse, linkIdx, hostIdx, netStopped>>

\* the interface name written in the dhclient command
DhclientIntf == "enp0s9"

Dhclient ==
    /\ NatCmd("dhclient", "/sbin/dhclient " \o DhclientIntf, DhclientIntf, "ifconfig4")
    /\ extUse' = [extUse EXCEPT !.dhclient = DhclientIntf]
    /\ UNCHANGED <<EXT_INT, step, topo, controller, out, reported, unmet, inits,
                   linkIdx, hostIdx, netStopped>>

IfconfigV4 ==
    /\ NatCmd("ifconfig4", "/sbin/ifconfig lo:1 1.1.1.1/24", "lo:1", "ifconfig6")
    /\ UNCHANGED <<EXT_INT, step, topo, controller, out, reported, unmet, inits,
                   extUse, linkIdx, hostIdx, netStopped>>

IfconfigV6 ==
    /\ NatCmd("ifconfig6", "/sbin/ifconfig lo:1 1111::1/64", "lo:1", "iptables")
    /\ UNCHANGED <<EXT_INT, step, topo, controller, out, reported, unmet, inits,
                   extUse, linkIdx, hostIdx, netStopped>>

Iptables ==
    /\ NatCmd("iptables",
              "/sbin/iptables -t nat -A POSTROUTING -o " \o EXT_INT \o " -j MASQUERADE",
              EXT_INT, "sysctl")
    /\ extUse' = [extUse EXCEPT !.masq = EXT_INT]
    /\ UNCHANGED <<EXT_INT, step, topo, controller, out, reported, unmet, inits,
                   linkIdx, hostIdx, netStopped>>

Sysctl ==
    /\ NatCmd("sysctl", "/sbin/sysctl -q -w net.ipv4.ip_forward=1", "", "cli")
    /\ UNCHANGED <<EXT_INT, step, topo, controller, out, reported, unmet, inits,
                   extUse, linkIdx, hostIdx, netStopped>>

\* CLI(net) returns: the user has ended the interactive session
CLI ==
    /\ pc = "cli"
    /\ pc' = "delIntf"
    /\ UNCHANGED <<EXT_INT, step, topo, controller, out, reported, unmet, inits,
                   log, intfRefs, extUse, linkIdx, hostIdx, netStopped>>

\* nat_nfv.delIntf(EXT_INT)
DelIntf ==
    /\ pc = "delIntf"
    /\ extUse' = [extUse EXCEPT !.detach = EXT_INT]
    /\ pc' = "links"
    /\ UNCHANGED <<EXT_INT, step, topo, controller, out, reported, unmet, inits,
                   log, intfRefs, linkIdx, hostIdx, netStopped>>

\* the link loop left after its first pass
ForLinksOnce ==
    /\ pc = "links"
    /\ linkIdx' = linkIdx + 1
    /\ pc' = "hosts"
    /\ UNCHANGED <<EXT_INT, step, topo, controller, out, reported, unmet, inits,
                   log, intfRefs, extUse, hostIdx, netStopped>>

\* for link in net.links: link.stop()
ForLinks ==
    /\ pc = "links"
    /\ IF linkIdx < Len(NetLinks(topo))
       THEN linkIdx' = linkIdx + 1 /\ pc' = "links"
       ELSE linkIdx' = linkIdx /\ pc' = "hosts"
    /\ UNCHANGED <<EXT_INT, step, topo, controller, out, reported, unmet, inits,
                   log, intfRefs, extUse, hostIdx, netStopped>>

\* for host in net.hosts: host.stop(deleteIntfs=True); host.terminate()
ForHosts ==
    /\ pc = "hosts"
    /\ IF hostIdx < Len(NetHosts(topo))
       THEN hostIdx' = hostIdx + 1 /\ pc' = "hosts"
       ELSE hostIdx' = hostIdx /\ pc' = "netstop"
    /\ UNCHANGED <<EXT_INT, step, topo, controller, out, reported, unmet, inits,
                   log, intfRefs, extUse, linkIdx, netStopped>>

\* net.stop()
NetStop ==
    /\ pc = "netstop"
    /\ netStopped' = TRUE
    /\ pc' = "done"
    /\ UNCHANGED <<EXT_INT, step, topo, controller, out, reported, unmet, inits,
                   log, intfRefs, extUse, linkIdx, hostIdx>>

(***************************************************************************)
(* Specifications.                                                         *)
(***************************************************************************)
\* every step of run() except the return of the interactive session
Program ==
    \/ Start
    \/ SetController1
    \/ SetController2
    \/ While
    \/ Test
    \/ Sleep
    \/ Retry
    \/ AttachIntf
    \/ SleepAfterAttach
    \/ Dhclient
    \/ IfconfigV4
    \/ IfconfigV6
    \/ Iptables
    \/ Sysctl
    \/ DelIntf
    \/ ForLinks
    \/ ForHosts
    \/ NetStop

Next == Program \/ CLI

Spec == Init /\ [][Next]_vars

\* run() is sequential and every call it makes returns: the next statement is
\* always executed.  When the user ends the session is left open.
FairSpec == Spec /\ WF_vars(Program)

(***************************************************************************)
(* Properties.                                                             *)
(***************************************************************************)
ControllerTarget == "tcp:127.0.0.1:6633"

IsPoll(e) == \E s \in StepSet : e.cmd = PollCmd(s)

IsSetController(e, b) == e = Act(b, SetControllerCmd(b), "")

\* C1: whenever run() is about to poll, or has polled, any wait condition, the
\* controller address has been assigned to both sw1 and sw2: both switches
\* carry the controller target, and in the record of external actions every
\* poll is preceded by the set-controller command of sw1 and that of sw2.
C1_ControllersSetBeforeAnyPoll ==
    /\ pc \in {"while", "test", "sleep", "retry"} =>
          \A b \in {"sw1", "sw2"} : controller[b] = ControllerTarget
    /\ \A i \in 1..Len(log) :
          IsPoll(log[i]) =>
             /\ \E j \in 1..(i - 1) : IsSetController(log[j], "sw1")
             /\ \E k \in 1..(i - 1) : IsSetController(log[k], "sw2")

\* the switch-connection poll has been made, after the controller-status poll
C1_Witness ==
    /\ pc = "test"
    /\ step = "switch"
    /\ Len(log) >= 4
    /\ log[3].cmd = PollCmd("faucet")
    /\ log[4].cmd = PollCmd("switch")

\* C3: teardown order: delIntf has been called on the nat node before any link
\* is stopped, every link of net.links is stopped before any host is stopped
\* and terminated, net.stop() is called only after every host of net.hosts
\* was; none of it happens before the interactive session has returned.
C3_TeardownOrder ==
    /\ linkIdx > 0 => extUse.detach # ""
    /\ hostIdx > 0 => linkIdx = Len(NetLinks(topo))
    /\ netStopped => hostIdx = Len(NetHosts(topo))
    /\ (extUse.detach # "" \/ linkIdx > 0 \/ hostIdx > 0 \/ netStopped) =>
          pc \in {"links", "hosts", "netstop", "done"}

\* teardown has run to its end over the 8 links and the 6 non-switch nodes
C3_Witness ==
    /\ netStopped
    /\ linkIdx = 8
    /\ hostIdx = 6
    /\ extUse.detach = EXT_INT

\* C4: when the first `service faucet status` output holds '(running)' and the
\* first `ovs-vsctl show` output holds 'is_connected', the external actions of
\* run() begin: set-controller sw1, set-controller sw2, one status poll, one
\* show poll, and then the listening check on the dhcp node; no sleep and no
\* `service faucet start` lies between them.
C4_NoIterationWhenReady ==
    (/\ Len(log) >= 3
     /\ log[3].cmd = PollCmd("faucet")
     /\ Contains(log[3].out, "(running)")) =>
        /\ IsSetController(log[1], "sw1")
        /\ IsSetController(log[2], "sw2")
        /\ Len(log) >= 4 => log[4].cmd = PollCmd("switch") /\ log[4].node = "root"
        /\ (Len(log) >= 5 /\ Contains(log[4].out, "is_connected")) =>
              /\ log[5].node = "dhcp"
              /\ log[5].cmd = "netstat -an | grep 67"

\* both first polls found their marker and the DHCP check has been issued
C4_Witness ==
    /\ Len(log) >= 5
    /\ log[3].cmd = PollCmd("faucet")
    /\ Contains(log[3].out, "(running)")
    /\ Contains(log[4].out, "is_connected")
    /\ log[5].node = "dhcp"
    /\ step = "dhcp"
    /\ pc = "test"

\* C5: once built, whatever EXT_INT is and whatever the outside world answers,
\* the topology holds exactly the switches sw1 (dpid 1) and sw2 (dpid 2), both
\* OpenFlow13, the controller node faucet, the three namespaced nodes dhcp,
\* nat and ids, the hosts h1 and h2, and 8 links, each joining two different
\* declared nodes and naming an interface on both ends.
C5_TopologyShape ==
    pc # "start" =>
        /\ NodesBy(topo, "addSwitch") =
              {NodeRec("sw1", "addSwitch", "OpenFlow13", "1", "", FALSE),
               NodeRec("sw2", "addSwitch", "OpenFlow13", "2", "", FALSE)}
        /\ {n.name : n \in {m \in NodesBy(topo, "addNode") : ~m.inNamespace}} = {"faucet"}
        /\ {n.name : n \in {m \in NodesBy(topo, "addNode") : m.inNamespace}} =
              {"dhcp", "nat", "ids"}
        /\ {n.name : n \in NodesBy(topo, "addHost")} = {"h1", "h2"}
        /\ Len(topo.nodes) = 8
        /\ Cardinality(NodeNames(topo)) = 8
        /\ Len(topo.links) = 8
        /\ \A i \in 1..Len(topo.links) :
              /\ topo.links[i].node1 \in NodeNames(topo)
              /\ topo.links[i].node2 \in NodeNames(topo)
              /\ topo.links[i].node1 # topo.links[i].node2
              /\ topo.links[i].intfName1 # ""
              /\ topo.links[i].intfName2 # ""

\* the topology has been built and run() has gone on to tear it down
C5_Witness ==
    /\ pc = "done"
    /\ Len(topo.links) = 8
    /\ Len(NetHosts(topo)) = 6

\* C6: on every node of the built topology, the interface names of the link
\* endpoints on that node are pairwise distinct.
C6_IntfNamesUniquePerNode ==
    pc # "start" =>
        \A n \in NodeNames(topo) :
            \A e1, e2 \in Endpoints(topo, n) : e1[3] = e2[3] => e1 = e2

\* eth0 is declared on h1, on h2 and on sw2, which carries five endpoints
C6_Witness ==
    /\ pc # "start"
    /\ "eth0" \in DeclaredIntfs(topo, "h1")
    /\ "eth0" \in DeclaredIntfs(topo, "h2")
    /\ "eth0" \in DeclaredIntfs(topo, "sw2")
    /\ Cardinality(Endpoints(topo, "sw2")) = 5
    /\ Cardinality(Endpoints(topo, "sw1")) = 4

\* the while condition of loop s has just been read as met
CondTrue(s) == pc = "test" /\ step = s /\ Contains(out, Marker(s))

\* C2: the DHCP-wait loop of h1 and of h2 is left only when the address the
\* host reports on eth0 lies in 10.0.0.x; on any other address the loop goes
\* on to its sleep and its udhcpc request.
C2_ExitOnlyInSubnet ==
    \A h \in {"h1", "h2"} :
        (pc = "test" /\ step = h /\ LoopExits(h, out)) => InSubnet(reported)

\* C7 as stated: every <<node, interface>> pair named in a provisioning command
\* is an interface name a link of the topology declares on that node.
C7_AllRefsDeclared ==
    \A r \in intfRefs : r[2] \in DeclaredIntfs(topo, r[1])

\* C7 amended: the interface names referenced on h1 and h2 are declared on that
\* node by a link; every other reference is on the nat node and names the
\* external interface (EXT_INT, or enp0s9 as written in the dhclient command)
\* or the alias lo:1, and neither enp0s9 nor lo:1 is declared by a link on nat.
C7_HostRefsDeclared ==
    /\ \A r \in intfRefs :
          \/ r[1] \in {"h1", "h2"} /\ r[2] \in DeclaredIntfs(topo, r[1])
          \/ r[1] = "nat" /\ r[2] \in {EXT_INT, "enp0s9", "lo:1"}
    /\ intfRefs # {} => {"enp0s9", "lo:1"} \cap DeclaredIntfs(topo, "nat") = {}

\* every command that names an interface has been issued
C7_Witness ==
    {<<"h1", "eth0">>, <<"h2", "eth0">>, <<"nat", "enp0s9">>, <<"nat", "lo:1">>,
     <<"nat", EXT_INT>>} \subseteq intfRefs

\* C8 as stated: in every one of the five poll loops, when the next poll is
\* about to be made the loop has issued as many initiating-action commands as
\* it has made unmet polls.
C8_RetryInEveryLoop ==
    (pc = "while" /\ step \in StepSet) => inits = unmet

\* C8 amended: in the controller-status, DHCP-server, h1 and h2 loops every
\* unmet poll is followed, before the next poll, by one initiating-action
\* command (the counts are equal at each poll and one apart in between); the
\* switch-connection loop only sleeps and issues no command at all.  The
\* counts are followed up to MaxRetry and the loops run on beyond it.
C8_RetryInLoopsWithAction ==
    step \in StepSet =>
        IF step = "switch"
        THEN inits = 0 /\ pc # "retry"
        ELSE /\ pc \in {"while", "test"} => inits = unmet
             /\ pc = "sleep" => unmet = Bump(inits)
             /\ pc = "retry" => unmet = Bump(inits)

\* the DHCP-server loop is about to poll again after MaxRetry unmet polls, each
\* followed by a dnsmasq launch
C8_Witness ==
    /\ step = "dhcp"
    /\ pc = "while"
    /\ unmet = MaxRetry
    /\ inits = MaxRetry

\* C9: the interface attached to the nat node, the one dhclient is run on, the
\* output interface of the masquerade rule and the interface detached at
\* teardown are all the one EXT_INT names.
C9_OneExternalInterface ==
    \A f \in {"attach", "dhclient", "masq", "detach"} :
        extUse[f] # "" => extUse[f] = EXT_INT

\* C10, blocking: a poll loop is left only on a poll that found its marker:
\* there is no other way out of a wait.
C10_NoEscape ==
    [][\A s \in StepSet :
          (step = s /\ step' # s) => (pc = "test" /\ Contains(out, Marker(s)))]_vars

\* C10, completion: if run() never stays for ever in a loop whose polled
\* condition is never read as met, nor for ever in the interactive session, it
\* reaches the end of teardown with net.stop() called.
C10_Completes ==
    ((\A s \in StepSet : []<>(step # s \/ CondTrue(s))) /\ []<>(pc # "cli"))
    => <>(pc = "done" /\ netStopped)

\* C10: run() has no timeout or cancellation path in any wait, and completes
\* teardown when every polled condition becomes true and the session ends.
C10_BlocksUntilMet == C10_NoEscape /\ C10_Completes

\* the last loop is still polling after MaxRetry unmet polls
C10_Witness ==
    /\ step = "h2"
    /\ pc = "test"
    /\ unmet = MaxRetry
    /\ ~Contains(out, Marker("h2"))

====
